---- MODULE Spec2Model ----
(***************************************************************************)
(* shopAPI: the generic repository BaseCRUD (src/src/shopAPI/crud.py) over *)
(* the tables Product, Order and OrderItem (src/src/shopAPI/models.py).    *)
(*                                                                         *)
(* A table is a set of rows (records).  A schema instance (the argument of *)
(* create and update) is the function from the fields that were explicitly *)
(* set on it (pydantic's model_fields_set) to their values, given with the *)
(* order in which its class declares them.  Python's None and SQL's NULL   *)
(* in a column are Null(column): NULL in the id and number columns,        *)
(* NullText in the text columns; the value of a relationship field is      *)
(* PyNone, PyList(dicts) or PyDict(dict).  Results of the repository's     *)
(* methods are records [tag, exc, row, rows, items].                       *)
(***************************************************************************)
EXTENDS Integers, FiniteSets, Sequences, Bags, TLC

VARIABLES store, last, deleting

vars == <<store, last, deleting>>

----------------------------------------------------------------------------
(* Bounds of the model and the values the callers draw their inputs from.  *)

MaxItems == 2         \* rows of order_item, and items of one OrderCreate

\* None and SQL NULL in a column of ids or numbers: no id, price, amount or
\* date of the model is 0.
NULL == 0

\* None and SQL NULL in a column of text: no name, description or status of
\* the model is this string.
NullText == "NULL"

\* The ids the model generates for the rows of each table: the store holds
\* at most one product, one order and MaxItems order items at a time.
ProductIds == {1}
OrderIds == {2}
OrderItemIds == 3..(2 + MaxItems)

\* A caller's id that no create generates.
UnusedId == 3 + MaxItems

Names == {"Widget"}
Descriptions == {"d"}
Prices == {9}
Amounts == {-1}
ItemAmounts == {2}
Dates == {1, 2}

\* The dates the clock shows when an Order is created.
Clock == {1}

Kinds == {"Product", "Order", "OrderItem"}

OrderStatus == {"created", "processing", "shipped", "delivered", "canceled"}

\* The statuses the callers' OrderStatusUpdate schemas carry.
StatusInputs == {"shipped"}

----------------------------------------------------------------------------
(* Entity model: columns, defaults, constraints.                           *)

Columns(kind) ==
    CASE kind = "Product" -> {"id", "name", "description", "price", "amount"}
      [] kind = "Order" -> {"id", "creation_date", "status"}
      [] kind = "OrderItem" -> {"id", "amount", "order_id", "product_id"}

\* The columns declared without nullable=False: UUID | None.
NullableColumns(kind) ==
    IF kind = "OrderItem" THEN {"order_id", "product_id"} ELSE {}

\* The relationships of the table models, in the order of their declaration.
RelationshipOrder(kind) ==
    CASE kind = "Product" -> <<"order_items">>
      [] kind = "Order" -> <<"order_items">>
      [] kind = "OrderItem" -> <<"order", "product">>

Relationships(kind) ==
    {RelationshipOrder(kind)[n] : n \in DOMAIN RelationshipOrder(kind)}

\* The relationships that are collections: list["OrderItem"].
Collections(kind) == IF kind = "OrderItem" THEN {} ELSE {"order_items"}

\* The columns of str and of OrderStatus.
TextColumns == {"name", "description", "status"}

\* None, and SQL NULL, in a column.
Null(column) == IF column \in TextColumns THEN NullText ELSE NULL

Ids(table) == {r.id : r \in table}

\* The identity of a row, and of an object in a session: its primary key.
Key(row) == [id |-> row.id]

ById(table, id) == {r \in table : r.id = id}

EmptyStore == [kind \in Kinds |-> {}]

\* The foreign keys of order_item: order.id and product.id, NULL allowed.
ForeignKeysHold(s) ==
    \A i \in s["OrderItem"] :
        /\ i.order_id # NULL => i.order_id \in Ids(s["Order"])
        /\ i.product_id # NULL => i.product_id \in Ids(s["Product"])

----------------------------------------------------------------------------
(* Results of the repository's methods.                                    *)

NoRow == [id |-> NULL]

Entity(row, items) ==
    [tag |-> "entity", exc |-> "", row |-> row, items |-> items, rows |-> EmptyBag]

None == [tag |-> "none", exc |-> "", row |-> NoRow, items |-> {}, rows |-> EmptyBag]

List(rows) == [tag |-> "list", exc |-> "", row |-> NoRow, items |-> {}, rows |-> rows]

Raise(exc) == [tag |-> "raise", exc |-> exc, row |-> NoRow, items |-> {}, rows |-> EmptyBag]

----------------------------------------------------------------------------
(* The session's unit of work and the transaction around create, update    *)
(* and delete.  A unit of work is the rows it deletes and the rows it      *)
(* inserts (an UPDATE deletes the old row and inserts the new one).        *)

UnitOfWork(del, ins) == [del |-> del, ins |-> ins]

Applied(s, uow) == [kind \in Kinds |-> (s[kind] \ uow.del[kind]) \cup uow.ins[kind]]

\* What the store accepts at flush: NOT NULL columns, primary keys, foreign keys.
StoreAccepts(s, uow) ==
    /\ \A kind \in Kinds : \A r \in uow.ins[kind] :
         /\ DOMAIN r = Columns(kind)
         /\ \A c \in Columns(kind) \ NullableColumns(kind) : r[c] # Null(c)
         /\ r.id \notin Ids(s[kind] \ uow.del[kind])
         /\ \A r2 \in uow.ins[kind] : r2.id = r.id => r2 = r
    /\ ForeignKeysHold(Applied(s, uow))

Only(kind, rows) == [k \in Kinds |-> IF k = kind THEN rows ELSE {}]

\* A wrapper that commits row by row: the rows the store accepts on their
\* own stay when the unit of work is rejected.
Transactional_Autocommit(s, uow, ret) ==
    IF ret.tag = "raise" THEN [store |-> s, result |-> ret]
    ELSE IF StoreAccepts(s, uow)
    THEN [store |-> Applied(s, uow), result |-> ret]
    ELSE [store |-> [kind \in Kinds |->
                       s[kind] \cup
                       {r \in uow.ins[kind] :
                           StoreAccepts(s, UnitOfWork(EmptyStore, Only(kind, {r})))}],
          result |-> Raise("IntegrityError")]

\* @Transactional(): commit when the wrapped method returns, roll back and
\* re-raise when it, or the flush of its writes, fails.
Transactional(s, uow, ret) ==
    IF ret.tag = "raise" THEN [store |-> s, result |-> ret]
    ELSE IF StoreAccepts(s, uow)
    THEN [store |-> Applied(s, uow), result |-> ret]
    ELSE [store |-> s, result |-> Raise("IntegrityError")]


----------------------------------------------------------------------------
(* Python values of a relationship field in the dump of a schema: None, a  *)
(* list of dicts, a dict.                                                  *)

PyNone == [type |-> "NoneType", items |-> <<>>]
PyList(items) == [type |-> "list", items |-> items]
PyDict(dict) == [type |-> "dict", items |-> <<dict>>]

\* BaseCRUD.extract_attributes_from_schema: model_dump(exclude_unset=True),
\* the pairs <<k, v>> of the fields set on the schema, in the order fields
\* in which the schema declares them.
RECURSIVE extract_attributes_from_schema(_, _, _)
extract_attributes_from_schema(schema, fields, excludes) ==
    IF fields = <<>> THEN <<>>
    ELSE LET k == Head(fields)
             rest == extract_attributes_from_schema(schema, Tail(fields), excludes)
         IN  IF k \in (DOMAIN schema) \ excludes
             THEN <<<<k, schema[k]>>>> \o rest
             ELSE rest

\* **attributes: the keyword arguments of a call.
Kwargs(attributes) ==
    [k \in {attributes[n][1] : n \in DOMAIN attributes} |->
        attributes[CHOOSE n \in DOMAIN attributes : attributes[n][1] = k][2]]

----------------------------------------------------------------------------
(* Attribute assignment on a table model.                                  *)

\* A mapped object: the row of its columns, the relationships that were
\* assigned an empty value, and the exception an assignment raised ("" when
\* none).
Object(row) == [row |-> row, cleared |-> {}, exc |-> ""]

\* setattr(model, k, v).  A column takes any value (a table model does not
\* validate).  A name that is no field of the model raises ValueError.  A
\* collection takes a list only (TypeError); replacing it loads the value it
\* held, which fails with MissingGreenlet unless it is loaded already, and
\* then appends the members of the list, and a dict is no mapped object
\* (AttributeError).  A scalar relationship is assigned without a load: None
\* clears it, a dict is no mapped object.
setattr(kind, obj, k, v, loaded) ==
    IF k \in Columns(kind) THEN [obj EXCEPT !.row[k] = v]
    ELSE IF k \notin Relationships(kind) THEN [obj EXCEPT !.exc = "ValueError"]
    ELSE IF k \in Collections(kind)
    THEN IF v.type # "list" THEN [obj EXCEPT !.exc = "TypeError"]
         ELSE IF ~loaded THEN [obj EXCEPT !.exc = "MissingGreenlet"]
         ELSE IF v.items # <<>> THEN [obj EXCEPT !.exc = "AttributeError"]
         ELSE [obj EXCEPT !.cleared = @ \cup {k}]
    ELSE IF v.type # "NoneType" THEN [obj EXCEPT !.exc = "AttributeError"]
         ELSE [obj EXCEPT !.cleared = @ \cup {k}]

\* The OrderItems the relationship order_items of an Order or a Product holds.
Related(s, kind, model) ==
    CASE kind = "Order" -> {i \in s["OrderItem"] : i.order_id = model.id}
      [] kind = "Product" -> {i \in s["OrderItem"] : i.product_id = model.id}
      [] kind = "OrderItem" -> {}

\* The foreign key of order_item a relationship is stored in.
ForeignKey(kind, relationship) ==
    CASE kind = "Order" -> "order_id"
      [] kind = "Product" -> "product_id"
      [] kind = "OrderItem" -> IF relationship = "order" THEN "order_id"
                               ELSE "product_id"

\* The columns of an object at flush: the foreign key of a scalar
\* relationship that was set to None is NULL.
Synced(kind, obj) ==
    IF kind = "OrderItem"
    THEN [c \in DOMAIN obj.row |->
            IF \E rel \in obj.cleared : ForeignKey(kind, rel) = c
            THEN NULL ELSE obj.row[c]]
    ELSE obj.row

----------------------------------------------------------------------------
(* Constructors of the table models.                                       *)

\* The used ids of a store.
AllIds(s) == UNION {Ids(s[kind]) : kind \in Kinds}

IdRange(kind) ==
    CASE kind = "Product" -> ProductIds
      [] kind = "Order" -> OrderIds
      [] kind = "OrderItem" -> OrderItemIds

\* IdMixin: the ids k new objects of a kind get.  A generated id is one no
\* row holds; which one is immaterial, and the model takes the smallest of
\* the kind's range.
RECURSIVE NewIds(_, _, _)
NewIds(kind, used, k) ==
    IF k = 0 THEN <<>>
    ELSE LET free == IdRange(kind) \ used
             id == CHOOSE x \in free : \A y \in free : x <= y
         IN  <<id>> \o NewIds(kind, used \cup {id}, k - 1)

\* The constructor of a table model: the fields given become the columns
\* (other names are ignored), and the relationships given are assigned, from
\* the n-th of RelationshipOrder on, on an object that has nothing to load.
RECURSIVE TableInit(_, _, _, _)
TableInit(kind, obj, kwargs, n) ==
    IF obj.exc # "" \/ n > Len(RelationshipOrder(kind)) THEN obj
    ELSE LET k == RelationshipOrder(kind)[n]
         IN  TableInit(kind,
                       IF k \in DOMAIN kwargs
                       THEN setattr(kind, obj, k, kwargs[k], TRUE) ELSE obj,
                       kwargs, n + 1)

\* OrderItem(**kwargs), with the id of IdMixin.
OrderItemInit(kwargs, id) ==
    TableInit("OrderItem",
              Object([f \in (DOMAIN kwargs) \cap Columns("OrderItem") |-> kwargs[f]]
                     @@ [id |-> id]),
              kwargs, 1)

\* Product(**kwargs), with the id of IdMixin.
ProductInit(kwargs, id) ==
    TableInit("Product",
              Object([f \in (DOMAIN kwargs) \cap Columns("Product") |-> kwargs[f]]
                     @@ [id |-> id]),
              kwargs, 1)

\* Order(**kwargs) that pops order_items and builds no OrderItem from them.
OrderInit_NoItems(kwargs, ids, now) ==
    [self |-> [f \in (DOMAIN kwargs) \cap Columns("Order") |-> kwargs[f]]
              @@ [id |-> ids[1], creation_date |-> now, status |-> "created"],
     order_items |-> {}, exc |-> ""]

\* Order(**kwargs): pops order_items (default []), constructs the Order from
\* the rest, and builds one OrderItem per entry; a value that is no list
\* cannot be built from (TypeError), and the first OrderItem that cannot be
\* constructed ends the construction.
OrderInit(kwargs, ids, now) ==
    LET order_items == IF "order_items" \in DOMAIN kwargs
                       THEN kwargs.order_items ELSE PyList(<<>>)
        rest == [f \in (DOMAIN kwargs) \cap Columns("Order") |-> kwargs[f]]
        self == rest @@ [id |-> ids[1], creation_date |-> now, status |-> "created"]
        built == [i \in DOMAIN order_items.items |->
                     OrderItemInit(order_items.items[i], ids[1 + i])]
        failed == {i \in DOMAIN built : built[i].exc # ""}
    IN  IF order_items.type # "list"
        THEN [self |-> self, order_items |-> {}, exc |-> "TypeError"]
        ELSE IF failed # {}
        THEN [self |-> self, order_items |-> {},
              exc |-> built[CHOOSE i \in failed : \A j \in failed : i <= j].exc]
        ELSE [self |-> self,
              order_items |-> {Synced("OrderItem", built[i]) : i \in DOMAIN built},
              exc |-> ""]

\* model_class(**attributes): the object, the objects it owns, and the
\* exception the construction raised ("" when none).
ModelInit(kind, kwargs, ids, now) ==
    CASE kind = "Product" ->
            LET obj == ProductInit(kwargs, ids[1])
            IN  [self |-> Synced(kind, obj), order_items |-> {}, exc |-> obj.exc]
      [] kind = "Order" -> OrderInit(kwargs, ids, now)
      [] kind = "OrderItem" ->
            LET obj == OrderItemInit(kwargs, ids[1])
            IN  [self |-> Synced(kind, obj), order_items |-> {}, exc |-> obj.exc]

\* The row an object is inserted as: the columns it leaves unset are NULL.
RowOf(kind, obj) == obj @@ [c \in Columns(kind) |-> Null(c)]

----------------------------------------------------------------------------
(* BaseCRUD: the writes.                                                   *)

NoWrites == UnitOfWork(EmptyStore, EmptyStore)

\* BaseCRUD.create
create(s, kind, model_create, fields, ids, now) ==
    LET attributes == extract_attributes_from_schema(model_create, fields, {})
        model == ModelInit(kind, Kwargs(attributes), ids, now)
        row == RowOf(kind, model.self)
        \* the relationship Order.order_items sets order_id at flush
        children == {RowOf("OrderItem", [order_id |-> model.self.id] @@ c) :
                        c \in model.order_items}
        ins == [k \in Kinds |->
                  (IF k = kind THEN {row} ELSE {})
                  \cup (IF k = "OrderItem" THEN children ELSE {})]
    IN  IF model.exc # "" THEN Transactional(s, NoWrites, Raise(model.exc))
        ELSE Transactional(s, UnitOfWork(EmptyStore, ins), Entity(row, children))

\* for k, v in attributes.items(): setattr(model, k, v), from the n-th pair
\* on; the loop ends at the first exception.
RECURSIVE SetAttributesFrom(_, _, _, _, _)
SetAttributesFrom(kind, obj, attributes, loaded, n) ==
    IF obj.exc # "" \/ n > Len(attributes) THEN obj
    ELSE SetAttributesFrom(kind,
                           setattr(kind, obj, attributes[n][1], attributes[n][2],
                                   loaded),
                           attributes, loaded, n + 1)

\* The loop of setattr(model, k, v) in BaseCRUD.update.
SetAttributes(kind, model, attributes, loaded) ==
    SetAttributesFrom(kind, Object(model), attributes, loaded, 1)

\* session.add(model) and the flush: the UPDATE of the row, and of the rows
\* a cleared collection held, whose foreign key becomes NULL (neither
\* collection has delete-orphan).
Flushed(s, kind, model, obj) ==
    LET row == Synced(kind, obj)
        detached == IF "order_items" \in obj.cleared
                    THEN Related(s, kind, model) ELSE {}
    IN  [row |-> row,
         uow |-> IF row = model /\ detached = {}
                 THEN NoWrites
                 ELSE UnitOfWork(
                        [k \in Kinds |-> (IF k = kind THEN {model} ELSE {})
                                         \cup (IF k = "OrderItem" THEN detached ELSE {})],
                        [k \in Kinds |-> (IF k = kind THEN {row} ELSE {})
                                         \cup (IF k = "OrderItem"
                                               THEN {[i EXCEPT ![ForeignKey(kind, "order_items")] = NULL] :
                                                        i \in detached}
                                               ELSE {})])]

\* BaseCRUD.update; fields is the order in which the schema declares its
\* fields, loaded tells whether the collections of model are loaded.
update(s, kind, model, model_update, fields, loaded) ==
    LET attributes == extract_attributes_from_schema(model_update, fields, {})
        obj == SetAttributes(kind, model, attributes, loaded)
        flushed == Flushed(s, kind, model, obj)
    IN  IF obj.exc # ""
        THEN Transactional(s, NoWrites, Raise(obj.exc))
        ELSE Transactional(s, flushed.uow, Entity(flushed.row, {}))

\* The OrderItems a delete of the model loads, by their keys: the members
\* of its relationship order_items.  session.delete(model) loads those of
\* an Order, to mark them as deleted with it (cascade "all"); the flush
\* loads those of a Product, which stay (default cascade), to set their
\* product_id to NULL.
Cascaded(s, kind, model) == {Key(i) : i \in Related(s, kind, model)}

\* A flush that cascades from Order through the items to their Products.
DeleteCascade_Products(s, kind, model, cascaded) ==
    LET items == {i \in s["OrderItem"] : Key(i) \in cascaded}
    IN  UnitOfWork([k \in Kinds |->
                      CASE k = kind -> {r \in s[k] : r.id = model.id}
                        [] k = "OrderItem" /\ kind = "Order" -> items
                        [] k = "Product" /\ kind = "Order" ->
                              {p \in s["Product"] :
                                  \E i \in items : i.product_id = p.id}
                        [] OTHER -> {}],
                   EmptyStore)

\* The flush of a delete, on the objects that were loaded for it: the
\* DELETE, by primary key, of the model and of the OrderItems of an Order;
\* the UPDATE, by primary key, that sets product_id of the OrderItems of a
\* Product to NULL.  A row loaded and gone since is not in s.
DeleteCascade(s, kind, model, cascaded) ==
    LET items == {i \in s["OrderItem"] : Key(i) \in cascaded}
        gone == [k \in Kinds |->
                   {r \in s[k] : \/ k = kind /\ r.id = model.id
                                 \/ k = "OrderItem" /\ kind = "Order" /\ r \in items}]
        refs == IF kind = "Product" THEN items ELSE {}
    IN  UnitOfWork([gone EXCEPT !["OrderItem"] = @ \cup refs],
                   Only("OrderItem", {[i EXCEPT !.product_id = NULL] : i \in refs}))

\* An UPDATE of the flush matches no row: an OrderItem loaded for the delete
\* of a Product was deleted since.  (A DELETE that matches no row is
\* a warning only.)
Stale(s, kind, cascaded) ==
    /\ kind = "Product"
    /\ \E k \in cascaded : \A i \in s["OrderItem"] : Key(i) # k

\* BaseCRUD.delete from the return of session.delete on: the flush and the
\* commit of Transactional, on the store as it is by then.  The flush
\* raises StaleDataError for an UPDATE that matches no row; the store
\* rejects the DELETE of a row that a row not loaded references.
DeleteFlush(s, kind, model, cascaded) ==
    Transactional(s, DeleteCascade(s, kind, model, cascaded),
                  IF Stale(s, kind, cascaded) THEN Raise("StaleDataError") ELSE None)

\* BaseCRUD.delete, when no other call commits before it does.
delete(s, kind, model) ==
    DeleteFlush(s, kind, model, Cascaded(s, kind, model))

----------------------------------------------------------------------------
(* BaseCRUD: the reads.  The join_ argument is a Python value: None, a     *)
(* set of names or a string.  A query is the entity kind,                  *)
(* the joins applied, the filter, and the exception its construction       *)
(* raised ("" when none).                                                  *)

JoinNone == [type |-> "NoneType", text |-> "", names |-> {}]
JoinSet(names) == [type |-> "set", text |-> "", names |-> names]
JoinStr(text) == [type |-> "str", text |-> text, names |-> {}]

\* Python's truth value of join_: None and empty containers are false.
Truthy(join_) ==
    CASE join_.type = "NoneType" -> FALSE
      [] join_.type = "str" -> join_.text # ""
      [] OTHER -> join_.names # {}

\* The relationships with a _join_<name> method, per repository.
RegisteredJoins(kind) == IF kind = "Order" THEN {"order_items"} ELSE {}

Select(kind) == [kind |-> kind, joins |-> {}, exc |-> "", field |-> "", value |-> NULL]

\* BaseCRUD._add_join_to_query: getattr(self, "_join_" + name)(query).
_add_join_to_query(query, name) ==
    IF query.exc # "" THEN query
    ELSE IF name \in RegisteredJoins(query.kind)
    THEN [query EXCEPT !.joins = @ \cup {name}]
    ELSE [query EXCEPT !.exc = "AttributeError"]

\* functools.reduce over the names of the set, in any order.
RECURSIVE reduce(_, _)
reduce(names, query) ==
    IF names = {} THEN query
    ELSE LET name == CHOOSE x \in names : TRUE
         IN  reduce(names \ {name}, _add_join_to_query(query, name))

\* BaseCRUD._optional_join
_optional_join(query, join_) ==
    IF ~Truthy(join_) THEN query
    ELSE IF join_.type # "set" THEN [query EXCEPT !.exc = "TypeError"]
    ELSE reduce(join_.names, query)

\* BaseCRUD._query
_query(kind, join_) == _optional_join(Select(kind), join_)

\* BaseCRUD._get_by
_get_by(query, field, value) == [query EXCEPT !.field = field, !.value = value]

\* The OrderItems an Order owns.
ItemsOf(s, order) == {i \in s["OrderItem"] : i.order_id = order.id}

\* The rows the store returns for a query, as a bag: a joined one-to-many
\* relationship yields one row of the parent per child (one when childless).
Execute(s, query) ==
    LET matched == {r \in s[query.kind] : r[query.field] = query.value}
        copies(r) == IF "order_items" \in query.joins /\ ItemsOf(s, r) # {}
                     THEN Cardinality(ItemsOf(s, r)) ELSE 1
    IN  [r \in matched |-> copies(r)]

\* The entity of a result row, with the relationships the query loaded.
Loaded(s, query, r) ==
    Entity(r, IF "order_items" \in query.joins THEN ItemsOf(s, r) ELSE {})

\* BaseCRUD._all
_all(s, query) == List(Execute(s, query))

\* BaseCRUD._all_unique
_all_unique(s, query) == List(SetToBag(BagToSet(Execute(s, query))))

\* BaseCRUD._one_or_none
_one_or_none(s, query) ==
    LET rows == Execute(s, query)
    IN  CASE BagCardinality(rows) = 0 -> None
          [] BagCardinality(rows) = 1 ->
                Loaded(s, query, CHOOSE r \in BagToSet(rows) : TRUE)
          [] OTHER -> Raise("MultipleResultsFound")

\* BaseCRUD.get_by
get_by(s, kind, field, value, join_, unique) ==
    LET query == _get_by(_query(kind, join_), field, value)
    IN  IF query.exc # "" THEN Raise(query.exc)
        ELSE IF unique THEN _one_or_none(s, query)
        ELSE IF join_.type # "NoneType" THEN _all_unique(s, query)
        ELSE _all(s, query)

\* get_by_id without the check of the result: None is returned as it is.
get_by_id_NoRaise(s, kind, id, join_) == get_by(s, kind, "id", id, join_, TRUE)

\* BaseCRUD.get_by_id
get_by_id(s, kind, id, join_) ==
    LET db_obj == get_by(s, kind, "id", id, join_, TRUE)
    IN  IF db_obj.tag = "none" THEN Raise("HTTPException404") ELSE db_obj


----------------------------------------------------------------------------
(* The inputs of the callers.                                              *)

\* ProductCreate and ProductUpdate: every field of ProductBase is required.
ProductSchemas == [name : Names, description : Descriptions,
                   price : Prices, amount : Amounts]

\* The fields of ProductBase, in the order of their declaration.
ProductFields == <<"name", "description", "price", "amount">>

\* An id a caller may hold: one of a row of the table, or one never generated.
CallerIds(table) == Ids(table) \cup {UnusedId}

\* OrderItemCreate
OrderItemSchemas(s) == [amount : ItemAmounts, product_id : CallerIds(s["Product"])]

\* OrderCreate: order_items, at least one.
OrderSchemas(s) ==
    {[order_items |-> PyList(items)] :
        items \in UNION {[1..n -> OrderItemSchemas(s)] : n \in 1..MaxItems}}

\* An item that also carries the Product it names, as a dict.
NestedItems(s) ==
    {[amount |-> a, product_id |-> p, product |-> PyDict([id |-> p])] :
        a \in ItemAmounts, p \in Ids(s["Product"])}

\* A schema instance on which no field was set.
Unset == <<>>

\* The schemas create is called with (it takes any schema): ProductCreate
\* and a schema that sets order_items to one item on the Product repository;
\* OrderCreate, a schema that sets order_items to None and one whose item
\* carries its Product on the Order repository; OrderItemCreate on the
\* OrderItem repository; a schema with no field set.
CreateSchemas(s, kind) ==
    {Unset}
    \cup (CASE kind = "Product" ->
                  ProductSchemas
                  \cup {[order_items |-> PyList(<<item>>)] :
                           item \in [amount : ItemAmounts, product_id : {UnusedId}]}
            [] kind = "Order" ->
                  OrderSchemas(s)
                  \cup {[order_items |-> PyNone]}
                  \cup {[order_items |-> PyList(<<item>>)] : item \in NestedItems(s)}
            [] kind = "OrderItem" -> OrderItemSchemas(s))

\* OrderStatusUpdate
OrderStatusSchemas == {[status |-> x] : x \in StatusInputs}

\* Schemas that set the relationship order_items: to the empty list, to
\* None, and to one item of a Product of the store (an OrderCreate).
OrderItemsSchemas(s) ==
    {[order_items |-> PyList(<<>>)], [order_items |-> PyNone]}
    \cup {[order_items |-> PyList(<<item>>)] :
             item \in [amount : ItemAmounts, product_id : Ids(s["Product"])]}

\* The schemas update is called with (it takes any schema): ProductUpdate,
\* OrderStatusUpdate, schemas that set one column of the table (to None,
\* for amount), schemas that set a relationship, and, on the Product
\* repository, schemas with the field of OrderStatusUpdate, which a Product
\* does not have.
UpdateSchemas(s, kind) ==
    CASE kind = "Product" ->
            ProductSchemas \cup {[amount |-> NULL]}
            \cup {[order_items |-> PyList(<<>>)]} \cup OrderStatusSchemas
            \cup {[status |-> x, order_items |-> PyList(<<>>)] : x \in StatusInputs}
      [] kind = "Order" ->
            OrderStatusSchemas
            \cup {[creation_date |-> x] : x \in Dates \ Clock}
            \cup OrderItemsSchemas(s) \cup {Unset}
      [] kind = "OrderItem" ->
            {[product_id |-> x] : x \in CallerIds(s["Product"])}
            \cup {[product |-> PyNone]}
            \cup {[product |-> PyDict([id |-> x])] : x \in Ids(s["Product"])}

\* The orders in which the class of a schema may declare the fields set on
\* it: that of ProductBase for its fields, any for other fields.
Declarations(schema) ==
    LET names == DOMAIN schema
    IN  IF names = {ProductFields[n] : n \in DOMAIN ProductFields}
        THEN {ProductFields}
        ELSE {fields \in [1..Cardinality(names) -> names] :
                 \A i, j \in 1..Cardinality(names) :
                     fields[i] = fields[j] => i = j}

\* Whether the collections of the model update is given are loaded: it
\* matters to a schema that sets one to a list.
LoadStates(kind, schema) ==
    IF \E k \in (DOMAIN schema) \cap Collections(kind) : schema[k].type = "list"
    THEN BOOLEAN ELSE {FALSE}

\* The join_ arguments that are None or a set of relationships the
\* repository has a join for.
JoinsOf(kind) ==
    {JoinNone} \cup {JoinSet(names) : names \in (SUBSET RegisteredJoins(kind)) \ {{}}}

\* The join_ arguments of get_by (unique is FALSE) and of get_by_id (it is
\* TRUE): every shape on the Order repository, whose relationship they
\* name, to get_by, and the empty string also to get_by_id; None on the
\* others.
JoinArgs(kind, unique) ==
    IF kind = "Order"
    THEN JoinsOf(kind) \cup {JoinStr("")}
         \cup (IF unique THEN {}
               ELSE {JoinSet({"unknown"}), JoinStr("order_items")})
    ELSE JoinsOf(kind)

\* The id-valued column get_by filters on: the Orders by their id, the
\* OrderItems by their Order.
LookupFields(kind) ==
    CASE kind = "Order" -> {"id"}
      [] kind = "OrderItem" -> {"order_id"}
      [] kind = "Product" -> {}

\* The ids looked up: with a join_ of JoinsOf, an id of a row and, when one
\* row at most is asked for, an id of none; with another join_, an id of
\* none.
LookupIds(s, kind, field, join_, unique) ==
    IF join_ \in JoinsOf(kind)
    THEN Ids(IF field = "order_id" THEN s["Order"] ELSE s[kind])
         \cup (IF unique THEN {UnusedId} ELSE {})
    ELSE {UnusedId}

\* The unique flags get_by is called with: both with a join_ of JoinsOf.
UniqueArgs(kind, join_) == IF join_ \in JoinsOf(kind) THEN BOOLEAN ELSE {FALSE}

\* The objects a create constructs, per table.
RowsAdded(kind, schema) ==
    [k \in Kinds |->
        (IF k = kind THEN 1 ELSE 0)
        + (IF k = "OrderItem" /\ kind = "Order" /\ "order_items" \in DOMAIN schema
           THEN Len(schema.order_items.items) ELSE 0)]

----------------------------------------------------------------------------
(* The state machine: one action per repository method, and two for the    *)
(* delete of a model that has the relationship order_items, whose members  *)
(* are loaded at an await.  last is the call that returned last: its       *)
(* arguments, the store before its transaction (pre) and its result.       *)
(* deleting holds, per repository, the delete that awaits: the keys of its *)
(* model and of the OrderItems loaded for it.                              *)

NoCall == [op |-> "", kind |-> "", pre |-> EmptyStore, ids |-> <<>>, now |-> 0,
           model |-> NoRow, schema |-> Unset, fields |-> <<>>, field |-> "",
           value |-> NULL, join_ |-> JoinNone, unique |-> FALSE,
           loaded |-> FALSE, cascaded |-> {}, result |-> None]

NoDelete == [pending |-> FALSE, model |-> NoRow, cascaded |-> {}]

Init ==
    /\ store = EmptyStore
    /\ last = NoCall
    /\ deleting = [kind \in Kinds |-> NoDelete]

\* The ids in use: those of the rows, and those a pending delete holds (a
\* generated id is never one that was generated before).
UsedIds ==
    AllIds(store)
    \cup (UNION {Ids({deleting[kind].model} \cup deleting[kind].cascaded) :
                    kind \in Kinds} \ {NULL})

Create(kind) ==
    /\ IdRange(kind) \ UsedIds # {}
    /\ \E schema \in CreateSchemas(store, kind), now \in Clock :
        \E fields \in Declarations(schema) :
        /\ \A k \in Kinds :
             RowsAdded(kind, schema)[k] <= Cardinality(IdRange(k) \ UsedIds)
        /\ LET ids == NewIds(kind, UsedIds, 1)
                      \o NewIds("OrderItem", UsedIds,
                                (IF kind = "Order"
                                 THEN RowsAdded(kind, schema)["OrderItem"] ELSE 0))
               out == create(store, kind, schema, fields, ids, now)
           IN  /\ store' = out.store
               /\ last' = [NoCall EXCEPT !.op = "create", !.kind = kind,
                              !.pre = store, !.ids = ids, !.now = now,
                              !.schema = schema, !.fields = fields,
                              !.result = out.result]
    /\ UNCHANGED deleting

Update(kind) ==
    /\ \E model \in store[kind], schema \in UpdateSchemas(store, kind) :
        \E fields \in Declarations(schema), loaded \in LoadStates(kind, schema) :
          LET out == update(store, kind, model, schema, fields, loaded)
          IN  /\ store' = out.store
              /\ last' = [NoCall EXCEPT !.op = "update", !.kind = kind,
                             !.pre = store, !.model = model,
                             !.schema = schema, !.fields = fields,
                             !.loaded = loaded, !.result = out.result]
    /\ UNCHANGED deleting

\* delete of a model that has no relationship to load: an OrderItem.
Delete(kind) ==
    /\ Collections(kind) = {}
    /\ \E model \in store[kind] :
        LET out == delete(store, kind, model)
        IN  /\ store' = out.store
            /\ last' = [NoCall EXCEPT !.op = "delete", !.kind = kind,
                           !.pre = store, !.model = model,
                           !.cascaded = Cascaded(store, kind, model),
                           !.result = out.result]
    /\ UNCHANGED deleting

\* delete of an Order or a Product, up to the load of its order_items: the
\* load is awaited, and other calls run and commit until the delete goes on.
DeleteLoad(kind) ==
    /\ Collections(kind) # {}
    /\ ~deleting[kind].pending
    /\ \E model \in store[kind] :
          deleting' = [deleting EXCEPT ![kind] =
                          [pending |-> TRUE, model |-> Key(model),
                           cascaded |-> Cascaded(store, kind, model)]]
    /\ UNCHANGED <<store, last>>

\* The rest of that delete: the flush and the commit of Transactional.
DeleteCommit(kind) ==
    /\ deleting[kind].pending
    /\ LET out == DeleteFlush(store, kind, deleting[kind].model,
                              deleting[kind].cascaded)
       IN  /\ store' = out.store
           /\ last' = [NoCall EXCEPT !.op = "delete", !.kind = kind,
                          !.pre = store, !.model = deleting[kind].model,
                          !.cascaded = deleting[kind].cascaded,
                          !.result = out.result]
    /\ deleting' = [deleting EXCEPT ![kind] = NoDelete]

GetBy(kind) ==
    /\ \E field \in LookupFields(kind), join_ \in JoinArgs(kind, FALSE) :
        \E unique \in UniqueArgs(kind, join_) :
        \E value \in LookupIds(store, kind, field, join_, unique) :
          last' = [NoCall EXCEPT !.op = "get_by", !.kind = kind,
                      !.pre = store, !.field = field, !.value = value,
                      !.join_ = join_, !.unique = unique,
                      !.result = get_by(store, kind, field, value, join_, unique)]
    /\ UNCHANGED <<store, deleting>>

GetById(kind) ==
    /\ \E join_ \in JoinArgs(kind, TRUE) : \E id \in LookupIds(store, kind, "id", join_, TRUE) :
          last' = [NoCall EXCEPT !.op = "get_by_id", !.kind = kind,
                      !.pre = store, !.field = "id", !.value = id,
                      !.join_ = join_, !.unique = TRUE,
                      !.result = get_by_id(store, kind, id, join_)]
    /\ UNCHANGED <<store, deleting>>

Next ==
    \E kind \in Kinds :
        \/ Create(kind)
        \/ Update(kind)
        \/ Delete(kind)
        \/ DeleteLoad(kind)
        \/ DeleteCommit(kind)
        \/ LookupFields(kind) # {} /\ GetBy(kind)
        \/ GetById(kind)

Spec == Init /\ [][Next]_vars

----------------------------------------------------------------------------
(* Properties.  Each speaks of the call made last: its arguments, the      *)
(* store before it (last.pre) and after it (store), and its result.        *)

Writes == {"create", "update", "delete"}

Returned == last.result.tag # "raise"

\* C1: after delete(o) of an Order completes, no OrderItem with
\* order_id = o.id remains (get_by("order_id", o.id) on OrderItem returns the
\* empty list), and every Product one of o's OrderItems referenced is still
\* returned by get_by_id.
C1_OrderDeleteCascades ==
    (last.op = "delete" /\ last.kind = "Order" /\ Returned) =>
        /\ get_by(store, "OrderItem", "order_id", last.model.id, JoinNone, FALSE)
              = List(EmptyBag)
        /\ \A i \in {r \in last.pre["OrderItem"] : Key(r) \in last.cascaded}
                      \cup ItemsOf(last.pre, last.model) :
              \A p \in ById(last.pre["Product"], i.product_id) :
                  get_by_id(store, "Product", p.id, JoinNone) = Entity(p, {})

\* An Order owning two items that reference a product was deleted, by a
\* delete that had to load them.
C1_Witness ==
    /\ last.op = "delete" /\ last.kind = "Order" /\ Returned /\ ~last.loaded
    /\ Cardinality(ItemsOf(last.pre, last.model)) = 2
    /\ last.cascaded = {Key(i) : i \in ItemsOf(last.pre, last.model)}
    /\ \A i \in ItemsOf(last.pre, last.model) :
          i.product_id \in Ids(last.pre["Product"])

\* C2, as claimed: an update(e, p) that completes changes exactly the
\* fields p sets, to p's values: every column of e that p sets has p's
\* value, and every column p does not set has the value it had before.
C2_Claim ==
    (last.op = "update" /\ Returned) =>
        \A f \in DOMAIN last.result.row :
            last.result.row[f] = IF f \in DOMAIN last.schema
                                 THEN last.schema[f] ELSE last.model[f]

\* A create or update whose rows name a Product the store does not hold.
NamesMissingProduct ==
    \/ /\ last.op = "create" /\ last.kind = "Order"
       /\ "order_items" \in DOMAIN last.schema
       /\ last.schema.order_items.type = "list"
       /\ \A n \in DOMAIN last.schema.order_items.items :
             DOMAIN last.schema.order_items.items[n] \subseteq Columns("OrderItem")
       /\ \E n \in DOMAIN last.schema.order_items.items :
             last.schema.order_items.items[n].product_id \notin Ids(last.pre["Product"])
    \/ /\ last.op \in {"create", "update"} /\ last.kind = "OrderItem"
       /\ "product_id" \in DOMAIN last.schema
       /\ last.schema.product_id \notin Ids(last.pre["Product"])

\* The columns of a table a row must be given a value for: those that are
\* NOT NULL and have no default.
Required(kind) ==
    Columns(kind) \ (NullableColumns(kind) \cup {"id", "creation_date", "status"})

\* A create or update whose row has no value in a NOT NULL column: a row
\* constructed from a schema of columns that does not set a required one, a
\* patch of columns that sets one of them to None.
LeavesRequiredNull ==
    \/ /\ last.op = "create"
       /\ DOMAIN last.schema \subseteq Columns(last.kind)
       /\ ~(Required(last.kind) \subseteq DOMAIN last.schema)
    \/ /\ last.op = "update"
       /\ DOMAIN last.schema \subseteq Columns(last.kind)
       /\ \E f \in (DOMAIN last.schema) \ NullableColumns(last.kind) :
             last.schema[f] = Null(f)

\* A delete whose flush finds every row it loaded, and whose model is
\* referenced by an OrderItem it did not load: one added, or pointed at the
\* model, while the delete awaited.
DeletesReferenced ==
    /\ last.op = "delete" /\ Collections(last.kind) # {}
    /\ ~Stale(last.pre, last.kind, last.cascaded)
    /\ \E i \in last.pre["OrderItem"] :
          /\ Key(i) \notin last.cascaded
          /\ i[ForeignKey(last.kind, "order_items")] = last.model.id

\* C3: when a write of create, update or delete fails, the store is as it
\* was before the call; a write that names a Product the store does not
\* hold, leaves a NOT NULL column without a value, or deletes a row that is
\* still referenced, is rejected by the store, and the caller gets the
\* store's failure exactly then.
C3_RejectedWriteRollsBack ==
    last.op \in Writes =>
        /\ ~Returned => store = last.pre
        /\ (NamesMissingProduct \/ LeavesRequiredNull \/ DeletesReferenced)
              <=> last.result = Raise("IntegrityError")

\* An Order of two items was created, one naming a Product of the store and
\* one naming none.
C3_Witness ==
    /\ last.op = "create" /\ last.kind = "Order" /\ ~Returned
    /\ "order_items" \in DOMAIN last.schema
    /\ Len(last.schema.order_items.items) = 2
    /\ last.schema.order_items.items[1].product_id \in Ids(last.pre["Product"])
    /\ last.schema.order_items.items[2].product_id \notin Ids(last.pre["Product"])
    /\ last.result = Raise("IntegrityError")

\* C4, as claimed: every OrderItem of the store has the order_id of an Order
\* of the store and the product_id of a Product of the store.
C4_Claim ==
    \A i \in store["OrderItem"] :
        /\ i.order_id \in Ids(store["Order"])
        /\ i.product_id \in Ids(store["Product"])

\* C5, as claimed: get_by with unique=true on an Order's id with the
\* relationship order_items returns that one Order with all its items, and
\* the not-found value when no Order has the id.
C5_Claim ==
    (/\ last.op = "get_by" /\ last.unique /\ last.kind = "Order"
     /\ last.field = "id" /\ last.join_ = JoinSet({"order_items"})) =>
        IF \E o \in store["Order"] : o.id = last.value
        THEN \E o \in store["Order"] :
                /\ o.id = last.value
                /\ last.result = Entity(o, ItemsOf(store, o))
        ELSE last.result = None

\* C6, as claimed: get_by and get_by_id fail with Invalid-Input for every
\* join_ that is supplied and is not a set of strings.
C6_Claim ==
    (/\ last.op \in {"get_by", "get_by_id"}
     /\ last.join_.type \notin {"NoneType", "set"}) =>
        last.result = Raise("TypeError")

\* C7: get_by_id(id) returns the entity of that id when the store holds
\* one, and fails with Not-Found when it holds none; it returns the entity
\* create just returned, and fails with Not-Found for the entity delete
\* just removed.
C7_GetByIdFindsOrRaises ==
    /\ (last.op = "get_by_id" /\ last.join_ = JoinNone) =>
          IF \E r \in store[last.kind] : r.id = last.value
          THEN \E r \in store[last.kind] :
                  r.id = last.value /\ last.result = Entity(r, {})
          ELSE last.result = Raise("HTTPException404")
    /\ (last.op = "create" /\ Returned) =>
          get_by_id(store, last.kind, last.result.row.id, JoinNone)
             = Entity(last.result.row, {})
    /\ (last.op = "delete" /\ Returned) =>
          get_by_id(store, last.kind, last.model.id, JoinNone)
             = Raise("HTTPException404")

\* get_by_id was asked for an id no row has, in a table that is not empty.
C7_Witness ==
    /\ last.op = "get_by_id" /\ last.join_ = JoinNone
    /\ store[last.kind] # {}
    /\ last.value \notin Ids(store[last.kind])
    /\ last.result.tag = "raise"

\* The bag of (amount, product_id) of a sequence of OrderItemCreate, and of
\* a set of order_item rows.
ItemKey(i) == [amount |-> i.amount, product_id |-> i.product_id]

BagOfSchemas(items) ==
    [x \in {ItemKey(items[n]) : n \in DOMAIN items} |->
        Cardinality({n \in DOMAIN items : ItemKey(items[n]) = x})]

BagOfRows(rows) ==
    [x \in {ItemKey(i) : i \in rows} |->
        Cardinality({i \in rows : ItemKey(i) = x})]

\* The default of a column: the time of the call, the status created, NULL.
Default(f, now) ==
    CASE f = "creation_date" -> now
      [] f = "status" -> "created"
      [] OTHER -> Null(f)

\* C8: on every repository, a create(payload) that completes returns a
\* persisted entity with a generated id, whose fields are those the payload
\* set and the defaults otherwise; an Order created from k items has status
\* created and exactly k OrderItems, one per input item with its amount and
\* product_id.
C8_CreateReturnsPayload ==
    (last.op = "create" /\ Returned) =>
        LET e == last.result.row
            given == IF "order_items" \in DOMAIN last.schema
                     THEN last.schema.order_items.items ELSE <<>>
        IN  /\ e \in store[last.kind]
            /\ e.id # NULL /\ e.id \notin AllIds(last.pre)
            /\ \A f \in (DOMAIN last.schema) \ {"order_items"} : e[f] = last.schema[f]
            /\ \A f \in Columns(last.kind) \ (DOMAIN last.schema \cup {"id"}) :
                  e[f] = Default(f, last.now)
            /\ last.kind = "Order" =>
                  /\ e.status = "created"
                  /\ e.creation_date = last.now
                  /\ last.result.items = ItemsOf(store, e)
                  /\ Cardinality(ItemsOf(store, e)) = Len(given)
                  /\ BagOfRows(ItemsOf(store, e)) = BagOfSchemas(given)
            /\ store = [k \in Kinds |->
                          last.pre[k] \cup (IF k = last.kind THEN {e} ELSE {})
                                      \cup (IF k = "OrderItem"
                                            THEN last.result.items ELSE {})]

\* An Order was created from two items, and two OrderItems were added.
C8_Witness ==
    /\ last.op = "create" /\ last.kind = "Order" /\ Returned
    /\ "order_items" \in DOMAIN last.schema
    /\ Len(last.schema.order_items.items) = 2
    /\ Cardinality(store["OrderItem"] \ last.pre["OrderItem"]) = 2

\* What a call leaves of the ids and creation dates of the rows.
IdentityKept ==
    /\ (last.op = "update" /\ Returned) =>
          /\ last.result.row.id = last.model.id
          /\ last.kind = "Order" =>
                last.result.row.creation_date = last.model.creation_date
    /\ \A kind \in Kinds :
          /\ last.op \notin {"create"} => Ids(store[kind]) \subseteq Ids(last.pre[kind])
          /\ last.op \notin {"delete"} => Ids(last.pre[kind]) \subseteq Ids(store[kind])
    /\ \A o \in store["Order"] : \A q \in last.pre["Order"] :
          o.id = q.id => o.creation_date = q.creation_date

\* C9, as claimed: no repository call, whatever the patch, changes the id
\* of an entity or the creation_date of an Order.
C9_Claim == IdentityKept

\* C10, as claimed: every Product of the store has amount >= 0.
C10_Claim == \A p \in store["Product"] : p.amount >= 0

====
